---- MODULE Spec2Model ----
(***************************************************************************)
(* Model of src/health_patch.js: the NodeHealthChecker class and the       *)
(* process-wide instance globalThis.BPBHealthChecker.                      *)
(*                                                                         *)
(* One checkAllNodes invocation is a coroutine.  It runs synchronously     *)
(* from one suspension point to the next; the suspension points are the    *)
(* fetch of a probe (line 36), the return of verifyRealConnection to the   *)
(* caller awaiting it (lines 87 and 126), the 300 ms timer between         *)
(* stability attempts (line 99) and the resumption of checkAllNodes after  *)
(* testStability has returned (line 122).  Every action below is one such  *)
(* synchronous segment; other code, another invocation or a getBestNode    *)
(* call, can run between any two of them.                                  *)
(*                                                                         *)
(* History kept beside the program's state, written by no line of the      *)
(* source: submitted, lastOutcome, confirmations, and in a frame fetches,  *)
(* probes, verdicts and statsAtCall.  No action reads them, but for the    *)
(* bound MaxChecks on submitted; the properties are stated over them.      *)
(*                                                                         *)
(* A list element that is null is the node NullNode, one that is          *)
(* undefined is UndefinedNode: the probe of either returns unhealthy       *)
(* without a fetch (node.url throws inside the try of                      *)
(* verifyRealConnection, with a message that names the value) and line 148 *)
(* then throws out of checkAllNodes, which leaves the invocation at        *)
(* pc = "rejected".                                                        *)
(*                                                                         *)
(* JavaScript values: null/undefined results are the record Null; the      *)
(* number sum / results.length is the exact fraction Rat(sum, length),     *)
(* which the comparison of line 173 cannot tell from the double; the       *)
(* numbers of line 162 are doubles, computed digit by digit; strings are   *)
(* strings.  The timestamp field of a probe result             *)
(* (Date.now(), lines 55 and 62) is read by no code and is left out.       *)
(***************************************************************************)
EXTENDS Integers, Sequences, FiniteSets, TLC

(***************************************************************************)
(* Bounds of the model.                                                    *)
(***************************************************************************)
\* The number of nodes handed to checkAllNodes, over all its calls.
MaxChecks == 3
\* The length of one node list.
MaxLen == 2

(***************************************************************************)
(* HEALTH_CONFIG, lines 8-13.                                              *)
(***************************************************************************)
MAX_LATENCY == 150
REQUIRED_TESTS == 3

Null == [null |-> TRUE]

\* response.status of a response that carries no status (undefined).
Undefined == -1

\* The invocations that can be in progress on the one checker.
Procs == {1, 2}
\* The invocations of a caller that awaits each checkAllNodes before the next.
SeqProcs == {1}

(***************************************************************************)
(* Inputs: nodes, node lists and what one fetch can do.                    *)
(***************************************************************************)
NodeA == [id |-> "A", url |-> "https://a.example"]
NodeB == [id |-> "B", url |-> "https://b.example", region |-> "eu", score |-> 7]
\* A list element that is null: node.url and node.id throw.
NullNode == Null
\* A list element that is undefined: node.url and node.id throw.
UndefinedNode == [undefined |-> TRUE]
\* The elements that are no object.
Nullish == {NullNode, UndefinedNode}
Nodes == {NodeA, NodeB, NullNode, UndefinedNode}

RECURSIVE SeqsUpTo(_, _)
SeqsUpTo(S, n) ==
    IF n = 0 THEN {<<>>}
    ELSE LET shorter == SeqsUpTo(S, n - 1)
         IN  shorter \cup {Append(s, x) : s \in {t \in shorter : Len(t) = n - 1}, x \in S}

NodeLists == SeqsUpTo(Nodes, MaxLen)

\* A fetch either rejects (error.message) or resolves with a response after
\* latency ms (Date.now() - startTime).
Rejections == {[kind |-> "error", message |-> "The operation was aborted."]}
\* What the try block of verifyRealConnection throws for the null node, at
\* node.url of line 36, before any fetch is made.
NullNodeThrow ==
    [kind |-> "error", message |-> "Cannot read properties of null (reading 'url')"]
\* The same for an undefined node.
UndefinedNodeThrow ==
    [kind |-> "error", message |-> "Cannot read properties of undefined (reading 'url')"]
\* What node.url of line 36 throws for the node that is no object.
NodeThrow(node) ==
    IF node = NullNode THEN NullNodeThrow ELSE UndefinedNodeThrow
Responses == {[kind |-> "response", status |-> 0, latency |-> 30],
              [kind |-> "response", status |-> Undefined, latency |-> 30],
              [kind |-> "response", status |-> 200, latency |-> 80],
              [kind |-> "response", status |-> 0, latency |-> 151],
              [kind |-> "response", status |-> 404, latency |-> 30]}
Outcomes == Rejections \cup Responses

VARIABLES
    healthyNodes,    \* this.healthyNodes: a Map, as the sequence of its entries
    unhealthyNodes,  \* this.unhealthyNodes: a Set of node ids
    stats,           \* this.stats
    inv,             \* inv[p]: the frame of invocation p of checkAllNodes
    submitted,       \* number of nodes handed to checkAllNodes so far, over all calls,
                     \* less those an invocation that rejected left unclassified
    lastOutcome,     \* per node id, how its latest classification ended
    confirmations,   \* the ids classified healthy, in the order of their first
                     \* such classification, each with its latest confirmation latency
    best,            \* what a getBestNode() call has just returned
    pure             \* arguments and result of a direct call of a pure method

vars == <<healthyNodes, unhealthyNodes, stats, inv, submitted, lastOutcome,
          confirmations, best, pure>>

(***************************************************************************)
(* Helpers for JavaScript values.                                          *)
(***************************************************************************)
\* {...a, ...b}: the fields of a, overridden and extended by those of b.
Spread(a, b) ==
    [f \in DOMAIN a \cup DOMAIN b |-> IF f \in DOMAIN b THEN b[f] ELSE a[f]]

RECURSIVE GCD(_, _)
GCD(a, b) == IF b = 0 THEN a ELSE GCD(b, a % b)

\* The number n / d (d > 0, n >= 0) as a fraction in lowest terms.
Rat(n, d) ==
    LET g == GCD(n, d)
    IN  [num |-> n \div g, den |-> d \div g]

Abs(x) == IF x < 0 THEN -x ELSE x
Max(a, b) == IF a >= b THEN a ELSE b

Digits == <<"0", "1", "2", "3", "4", "5", "6", "7", "8", "9">>

RECURSIVE IntToStr(_)
IntToStr(n) ==
    IF n < 10 THEN Digits[n + 1]
    ELSE IntToStr(n \div 10) \o Digits[(n % 10) + 1]

(***************************************************************************)
(* Number arithmetic of line 162.  A Number other than 0 is kept as         *)
(* [bits, exp]: bits is its significand as a sequence of Precision binary   *)
(* digits, most significant first and starting with 1, read as an integer;  *)
(* the value is that integer times 2^exp.                                   *)
(***************************************************************************)
Precision == 53

\* Significands are multiplied and divided eight binary digits at a time.
LimbBits == 8
LimbBase == 256
Pow2 == <<1, 2, 4, 8, 16, 32, 64, 128>>

RECURSIVE ValueOf(_)
ValueOf(bits) ==
    IF bits = <<>> THEN 0
    ELSE 2 * ValueOf(SubSeq(bits, 1, Len(bits) - 1)) + bits[Len(bits)]

Zeros(n) == [j \in 1..n |-> 0]

\* bits without its leading zeros.
StripZeros(bits) ==
    IF \A j \in 1..Len(bits) : bits[j] = 0 THEN <<>>
    ELSE LET first == CHOOSE j \in 1..Len(bits) :
                          bits[j] = 1 /\ \A i \in 1..(j - 1) : bits[i] = 0
         IN  SubSeq(bits, first, Len(bits))

\* bits as digits of base LimbBase, most significant first.
LimbsOf(bits) ==
    LET pad    == (LimbBits - (Len(bits) % LimbBits)) % LimbBits
        padded == Zeros(pad) \o bits
    IN  [m \in 1..(Len(padded) \div LimbBits) |->
            ValueOf(SubSeq(padded, LimbBits * (m - 1) + 1, LimbBits * m))]

\* The binary digits of a sequence of digits of base LimbBase.
BitsOfLimbs(limbs) ==
    [j \in 1..(LimbBits * Len(limbs)) |->
        (limbs[((j - 1) \div LimbBits) + 1]
             \div Pow2[LimbBits - ((j - 1) % LimbBits)]) % 2]

\* bits + 1; one digit longer when bits is all ones.
Increment(bits) ==
    IF \A j \in 1..Len(bits) : bits[j] = 1 THEN <<1>> \o Zeros(Len(bits))
    ELSE LET last == CHOOSE j \in 1..Len(bits) :
                         bits[j] = 0 /\ \A i \in (j + 1)..Len(bits) : bits[i] = 1
         IN  SubSeq(bits, 1, last - 1) \o <<1>> \o Zeros(Len(bits) - last)

\* limbs * k + carry in base LimbBase, for 0 < k <= LimbBase.
RECURSIVE TimesLimbs(_, _, _)
TimesLimbs(limbs, k, carry) ==
    IF limbs = <<>> THEN <<carry>>
    ELSE LET v == k * limbs[Len(limbs)] + carry
         IN  TimesLimbs(SubSeq(limbs, 1, Len(limbs) - 1), k, v \div LimbBase)
                 \o <<v % LimbBase>>

\* bits * k, for 0 < k <= LimbBase.
TimesSmall(bits, k) == StripZeros(BitsOfLimbs(TimesLimbs(LimbsOf(bits), k, 0)))

\* The Number nearest to (bits as an integer, plus a non-zero fraction if
\* sticky) * 2^exp, ties to the even significand.
RoundToNumber(bits, sticky, exp) ==
    IF Len(bits) <= Precision
    THEN [bits |-> bits \o Zeros(Precision - Len(bits)),
          exp  |-> exp - (Precision - Len(bits))]
    ELSE LET kept  == SubSeq(bits, 1, Precision)
             guard == bits[Precision + 1]
             tail  == sticky \/ \E j \in (Precision + 2)..Len(bits) : bits[j] = 1
             up    == guard = 1 /\ (tail \/ kept[Precision] = 1)
             inc   == IF up THEN Increment(kept) ELSE kept
             e     == exp + Len(bits) - Precision
         IN  IF Len(inc) > Precision
             THEN [bits |-> SubSeq(inc, 1, Precision), exp |-> e + 1]
             ELSE [bits |-> inc, exp |-> e]

\* num / den = (num' / den') * 2^exp with den' <= num' < 2 * den'.
RECURSIVE Normalize(_, _, _)
Normalize(num, den, exp) ==
    IF num < den THEN Normalize(2 * num, den, exp - 1)
    ELSE IF num >= 2 * den THEN Normalize(num, 2 * den, exp + 1)
    ELSE [num |-> num, den |-> den, exp |-> exp]

\* The first count digits of base LimbBase of rem / den < 1 after the point,
\* and what is left over.
RECURSIVE QuotientLimbs(_, _, _)
QuotientLimbs(rem, den, count) ==
    IF count = 0 THEN [limbs |-> <<>>, rem |-> rem]
    ELSE LET rest == QuotientLimbs((rem * LimbBase) % den, den, count - 1)
         IN  [limbs |-> <<(rem * LimbBase) \div den>> \o rest.limbs, rem |-> rest.rem]

\* n / d as a Number, for integers n, d > 0: the quotient to one digit before
\* and 7 * LimbBits digits after the point, then rounded.
Divide(n, d) ==
    LET s == Normalize(n, d, 0)
        q == QuotientLimbs(s.num - s.den, s.den, 7)
    IN  RoundToNumber(<<1>> \o BitsOfLimbs(q.limbs), q.rem # 0, s.exp - 7 * LimbBits)

\* x * k as a Number, for a small integer k > 0.
Times(x, k) == RoundToNumber(TimesSmall(x.bits, k), FALSE, x.exp)

\* x.toFixed(1) for a Number x > 0: the tenths nearest to the value x has,
\* the larger of the two at a tie, written with one decimal.
ToFixed(x) ==
    LET t      == TimesSmall(x.bits, 10)
        f      == 0 - x.exp
        tenths == IF f <= 0 THEN ValueOf(t \o Zeros(x.exp))
                  ELSE IF f > Len(t) THEN 0
                  ELSE ValueOf(SubSeq(t, 1, Len(t) - f)) + t[Len(t) - f + 1]
    IN  IntToStr(tenths \div 10) \o "." \o Digits[(tenths % 10) + 1]

\* (n / d * 100).toFixed(1) for integers n, d >= 0: "NaN" for 0 / 0,
\* "Infinity" for n / 0, "0.0" for 0 / d.
ToFixed1(n, d) ==
    IF d = 0 THEN (IF n = 0 THEN "NaN" ELSE "Infinity")
    ELSE IF n = 0 THEN "0.0"
    ELSE ToFixed(Times(Divide(n, d), 100))

(***************************************************************************)
(* validateResponse, lines 69-80.                                          *)
(***************************************************************************)
\* As validateResponse, with the threshold itself rejected.
validateResponseExclusive(status, latency) ==
    IF latency >= MAX_LATENCY THEN FALSE
    ELSE IF latency < 1 THEN FALSE
    ELSE IF (status # Undefined /\ status # 0) /\ status >= 400 THEN FALSE
    ELSE TRUE

validateResponse(status, latency) ==
    IF latency > MAX_LATENCY THEN FALSE
    ELSE IF latency < 1 THEN FALSE
    ELSE IF (status # Undefined /\ status # 0) /\ status >= 400 THEN FALSE
    ELSE TRUE

(***************************************************************************)
(* verifyRealConnection, lines 28-66: the result for one settled fetch.    *)
(***************************************************************************)
\* As verifyRealConnection, with a fixed text in place of the error's message.
verifyRealConnectionFixedText(o) ==
    IF o.kind = "response"
    THEN [healthy |-> validateResponse(o.status, o.latency),
          latency |-> o.latency,
          status  |-> IF o.status = Undefined THEN 0 ELSE o.status]
    ELSE [healthy |-> FALSE, latency |-> Null, error |-> "probe failed"]

verifyRealConnection(o) ==
    IF o.kind = "response"
    THEN [healthy |-> validateResponse(o.status, o.latency),
          latency |-> o.latency,
          status  |-> IF o.status = Undefined THEN 0 ELSE o.status]
    ELSE [healthy |-> FALSE, latency |-> Null, error |-> o.message]

(***************************************************************************)
(* testStability, lines 83-112.                                            *)
(***************************************************************************)
\* As StabilityFailed, looking at the error field instead of the healthy flag.
StabilityFailedOnError(result) == "error" \in DOMAIN result

\* line 91: the test that ends the loop
StabilityFailed(result) == ~result.healthy

\* The string literal of line 95 (Chinese for "connection failed").
GenericReason == "connection failed"

\* lines 92-96
UnstableResult(i, result) ==
    [stable  |-> FALSE,
     attempt |-> i + 1,
     reason  |-> IF "error" \in DOMAIN result /\ result.error # ""
                 THEN result.error ELSE GenericReason]

RECURSIVE SumLatency(_)
SumLatency(results) ==
    IF results = <<>> THEN 0
    ELSE SumLatency(SubSeq(results, 1, Len(results) - 1)) + results[Len(results)].latency

\* As AvgLatency, with the quotient truncated to an integer.
AvgLatencyTruncated(results) == Rat(SumLatency(results) \div Len(results), 1)

\* line 104
AvgLatency(results) == Rat(SumLatency(results), Len(results))

\* lines 106-111
StableResult(results) ==
    [stable      |-> TRUE,
     attempts    |-> REQUIRED_TESTS,
     avgLatency  |-> AvgLatency(results),
     successRate |-> 1]

(***************************************************************************)
(* calculateScore, lines 168-176.                                          *)
(***************************************************************************)
\* As calculateScore, with the bonus given up to a difference of 20 inclusive.
calculateScoreInclusive(currentLatency, avgLatency) ==
    LET latencyScore == Max(0, 100 - currentLatency)
        stabilityBonus ==
            IF Abs(currentLatency * avgLatency.den - avgLatency.num) <= 20 * avgLatency.den
            THEN 20 ELSE 0
    IN  latencyScore + stabilityBonus

calculateScore(currentLatency, avgLatency) ==
    LET latencyScore == Max(0, 100 - currentLatency)
        stabilityBonus ==
            IF Abs(currentLatency * avgLatency.den - avgLatency.num) < 20 * avgLatency.den
            THEN 20 ELSE 0
    IN  latencyScore + stabilityBonus

(***************************************************************************)
(* Map.prototype.set on this.healthyNodes (line 136): an existing key      *)
(* keeps its place in the iteration order and gets the new value.          *)
(***************************************************************************)
MapSet(map, key, value) ==
    IF \E j \in 1..Len(map) : map[j].key = key
    THEN [j \in 1..Len(map) |->
             IF map[j].key = key THEN [key |-> key, value |-> value] ELSE map[j]]
    ELSE Append(map, [key |-> key, value |-> value])

MapHas(map, key) == \E j \in 1..Len(map) : map[j].key = key

(***************************************************************************)
(* getBestNode, lines 179-191.                                             *)
(***************************************************************************)
\* As Better, with <= for <.
BetterOrEqual(latency, highestScore) == latency <= highestScore \/ highestScore = -1

\* line 184
Better(latency, highestScore) == latency < highestScore \/ highestScore = -1

RECURSIVE BestFrom(_, _, _, _)
BestFrom(map, j, bestNode, highestScore) ==
    IF j > Len(map) THEN bestNode
    ELSE IF Better(map[j].value.health.latency, highestScore)
         THEN BestFrom(map, j + 1, map[j].value, map[j].value.health.latency)
         ELSE BestFrom(map, j + 1, bestNode, highestScore)

getBestNode(map) == BestFrom(map, 1, Null, -1)

(***************************************************************************)
(* Array.prototype.sort with (a, b) => b.score - a.score, line 156: a      *)
(* stable sort (ECMAScript 2019), here by insertion.                       *)
(***************************************************************************)
\* As KeepsOrder, for a sort that moves b before an a of equal score.
KeepsOrderStrict(a, b) == b.score - a.score < 0

\* a stays before b
KeepsOrder(a, b) == b.score - a.score <= 0

RECURSIVE InsertSorted(_, _)
InsertSorted(sorted, x) ==
    IF sorted = <<>> THEN <<x>>
    ELSE IF KeepsOrder(sorted[Len(sorted)], x) THEN Append(sorted, x)
    ELSE Append(InsertSorted(SubSeq(sorted, 1, Len(sorted) - 1), x), sorted[Len(sorted)])

RECURSIVE SortByScore(_)
SortByScore(arr) ==
    IF arr = <<>> THEN <<>>
    ELSE InsertSorted(SortByScore(SubSeq(arr, 1, Len(arr) - 1)), arr[Len(arr)])

(***************************************************************************)
(* checkAllNodes, lines 115-165.                                           *)
(***************************************************************************)
\* The text of line 162 for counters up to TableTotal, computed once.
TableTotal == 16
RateText ==
    [total \in 0..TableTotal |->
        [succeeded \in 0..total |-> ToFixed1(succeeded, total) \o "%"]]

\* line 162
HealthRate(st) ==
    IF st.totalChecks <= TableTotal /\ st.successfulChecks <= st.totalChecks
    THEN RateText[st.totalChecks][st.successfulChecks]
    ELSE ToFixed1(st.successfulChecks, st.totalChecks) \o "%"

\* lines 158-164
ReturnValue(arr, st) ==
    [healthy |-> SortByScore(arr),
     stats   |-> Spread(st, [healthRate |-> HealthRate(st)])]

\* lines 129-134
ScoredNode(node, finalCheck, stabilityTest) ==
    Spread(node, [latency    |-> finalCheck.latency,
                  avgLatency |-> stabilityTest.avgLatency,
                  score      |-> calculateScore(finalCheck.latency, stabilityTest.avgLatency)])

\* lines 136-140
RegistryEntry(node, finalCheck, stabilityTest) ==
    Spread(node, [health |-> finalCheck, stability |-> stabilityTest])

\* As CountSuccess, with a success also taken off the failed count.
CountSuccessOffsetsFailure(st) ==
    [st EXCEPT !.successfulChecks = @ + 1,
               !.failedChecks = IF @ > 0 THEN @ - 1 ELSE 0]

\* line 142
CountSuccess(st) == [st EXCEPT !.successfulChecks = @ + 1]

\* As CountFailure, with the increment forgotten.
CountFailureForgotten(st) == st

\* lines 145 and 149
CountFailure(st) == [st EXCEPT !.failedChecks = @ + 1]

\* line 152
CountTotal(st) == [st EXCEPT !.totalChecks = @ + 1]

\* As Confirmed, accepting every confirmation probe that got a response.
ConfirmedByAnyResponse(finalCheck) == "status" \in DOMAIN finalCheck

\* line 128: the test that admits a node to the healthy list
Confirmed(finalCheck) == finalCheck.healthy

\* The frame of an invocation.  stabilityTest, results and i are live from
\* the call of testStability to the end of the loop body; outside it they
\* have their initial values.
IdleFrame ==
    [pc            |-> "idle",
     nodeList      |-> <<>>,
     k             |-> 0,        \* position of the for-of loop, line 120
     healthyNodes  |-> <<>>,     \* the local array, line 118
     i             |-> 0,        \* testStability's loop counter
     results       |-> <<>>,     \* testStability's results
     stabilityTest |-> Null,
     resolved      |-> Null,     \* what verifyRealConnection returned, until its caller resumes
     fetches       |-> 0,        \* calls of verifyRealConnection made for the current
                                 \* node: one fetch each, none for a null node
     probes        |-> <<>>,     \* per node, the healthy flag of each probe result
     verdicts      |-> <<>>,     \* per node, what its evaluation and confirmation returned
     statsAtCall   |-> Null,     \* this.stats when checkAllNodes was called
     ret           |-> Null]

\* The probe result is noted in the record of the current node's probes.
Logged(r, result) ==
    [r EXCEPT !.probes[r.k] = Append(@, result.healthy)]

\* verifyRealConnection has returned result; the caller that awaits it (line
\* 87 or line 126) resumes in a later job.
Returned(r, result) ==
    [Logged(r, result) EXCEPT
        !.resolved = result,
        !.pc = IF r.pc = "stabProbe" THEN "stabResume" ELSE "finalResume"]

\* verifyRealConnection(node) is called for the current node, lines 28-36:
\* the fetch is issued and awaited, or, node being null or undefined,
\* node.url throws and the catch of lines 58-65 returns at once.
CallProbe(r, at) ==
    LET called == [r EXCEPT !.pc = at, !.fetches = @ + 1]
    IN  IF r.nodeList[r.k] \in Nullish
        THEN Returned(called, verifyRealConnection(NodeThrow(r.nodeList[r.k])))
        ELSE called

\* The for-of loop steps to the node after position r.k: either testStability
\* is called on it and makes its first probe, or the loop is over and
\* checkAllNodes sorts (in place) and returns.  st is this.stats at that moment.
NextNode(r, st) ==
    IF r.k < Len(r.nodeList)
    THEN CallProbe([r EXCEPT !.k = r.k + 1, !.i = 0, !.results = <<>>,
                             !.stabilityTest = Null, !.fetches = 0,
                             !.probes = Append(r.probes, <<>>)],
                   "stabProbe")
    ELSE [r EXCEPT !.pc = "done", !.k = r.k + 1, !.i = 0, !.results = <<>>,
                   !.stabilityTest = Null, !.fetches = 0,
                   !.healthyNodes = SortByScore(r.healthyNodes),
                   !.ret = ReturnValue(r.healthyNodes, st)]

\* node.id of line 144 or 148 throws for a null or undefined node:
\* checkAllNodes rejects with the loop's remaining nodes untouched and
\* nothing written.
Rejected(r) ==
    [r EXCEPT !.pc = "rejected", !.i = 0, !.results = <<>>, !.stabilityTest = Null,
              !.fetches = 0, !.healthyNodes = <<>>]

NoCall == [called |-> FALSE, node |-> Null]

InitChecker ==
    /\ healthyNodes = <<>>
    /\ unhealthyNodes = {}
    /\ stats = [totalChecks |-> 0, successfulChecks |-> 0, failedChecks |-> 0]
    /\ inv = [p \in Procs |-> IdleFrame]
    /\ submitted = 0
    /\ lastOutcome = [n \in {} |-> "none"]
    /\ confirmations = <<>>
    /\ best = NoCall

Init ==
    /\ InitChecker
    /\ pure = Null

\* checkAllNodes(nodeList) is called: lines 116-122 up to the first fetch, or
\* all of it for an empty list.
CheckAllNodes(p, nodeList) ==
    /\ inv[p].pc \in {"idle", "done", "rejected"}
    /\ submitted + Len(nodeList) <= MaxChecks
    /\ submitted' = submitted + Len(nodeList)
    /\ inv' = [inv EXCEPT ![p] =
                 NextNode([IdleFrame EXCEPT !.nodeList = nodeList, !.statsAtCall = stats], stats)]
    /\ best' = NoCall
    /\ UNCHANGED <<healthyNodes, unhealthyNodes, stats, lastOutcome, confirmations, pure>>

\* The fetch of verifyRealConnection settles: it resumes at line 46 or in the
\* catch of line 58 and returns its result, which resolves the promise its
\* caller awaits (line 87 or line 126); the caller resumes in a later job.
FetchSettled(p, o) ==
    /\ inv[p].pc \in {"stabProbe", "finalProbe"}
    /\ LET r == inv[p]
           result == verifyRealConnection(o)
       IN  inv' = [inv EXCEPT ![p] = Returned(r, result)]
    /\ best' = NoCall
    /\ UNCHANGED <<healthyNodes, unhealthyNodes, stats, submitted, lastOutcome,
                   confirmations, pure>>

\* testStability resumes with the result of a stability attempt: lines 87-99.
StabilityProbeDone(p) ==
    /\ inv[p].pc = "stabResume"
    /\ LET r == inv[p]
           result == r.resolved
           pushed == [r EXCEPT !.results = Append(@, result), !.resolved = Null]
       IN  inv' = [inv EXCEPT ![p] =
                IF StabilityFailed(result)
                THEN [pushed EXCEPT !.pc = "classify",
                                    !.stabilityTest = UnstableResult(r.i, result)]
                ELSE [pushed EXCEPT !.pc = "delay"]]
    /\ best' = NoCall
    /\ UNCHANGED <<healthyNodes, unhealthyNodes, stats, submitted, lastOutcome,
                   confirmations, pure>>

\* As LoopContinues, with one attempt more.
LoopContinuesInclusive(i) == i <= REQUIRED_TESTS

\* line 86: i < HEALTH_CONFIG.REQUIRED_TESTS
LoopContinues(i) == i < REQUIRED_TESTS

\* The 300 ms timer fires: i++, the loop test of line 86, then either the
\* next fetch or lines 104-111.
DelayDone(p) ==
    /\ inv[p].pc = "delay"
    /\ LET r == inv[p]
       IN  inv' = [inv EXCEPT ![p] =
                IF LoopContinues(r.i + 1)
                THEN CallProbe([r EXCEPT !.i = r.i + 1], "stabProbe")
                ELSE [r EXCEPT !.pc = "classify", !.i = r.i + 1,
                               !.stabilityTest = StableResult(r.results)]]
    /\ best' = NoCall
    /\ UNCHANGED <<healthyNodes, unhealthyNodes, stats, submitted, lastOutcome,
                   confirmations, pure>>

\* What is noted of a node's classification: what testStability returned and,
\* if a confirmation probe was made (finalCheck is not Null), what it returned.
Verdict(stabilityTest, finalCheck) ==
    IF stabilityTest.stable /\ finalCheck # Null /\ finalCheck.healthy
    THEN [stable |-> TRUE, confirmed |-> TRUE,
          latency |-> finalCheck.latency, avgLatency |-> stabilityTest.avgLatency]
    ELSE [stable |-> stabilityTest.stable, confirmed |-> FALSE]

Noted(r, finalCheck) ==
    [r EXCEPT !.verdicts = Append(@, Verdict(r.stabilityTest, finalCheck))]

\* The id with its latest confirmation latency, at the place of its first one.
Confirmation(seq, id, latency) ==
    IF \E j \in 1..Len(seq) : seq[j].id = id
    THEN [j \in 1..Len(seq) |->
             IF seq[j].id = id THEN [id |-> id, latency |-> latency] ELSE seq[j]]
    ELSE Append(seq, [id |-> id, latency |-> latency])

\* Own(r): what invocation r has added to the counters so far.
Own(r) ==
    LET Passes == {j \in 1..Len(r.verdicts) : r.verdicts[j].confirmed}
    IN  [totalChecks      |-> Len(r.verdicts),
         successfulChecks |-> Cardinality(Passes),
         failedChecks     |-> Len(r.verdicts) - Cardinality(Passes)]

\* As SharedStats, with each invocation counting from the values it found
\* when it was called.
SharedStatsCopiedAtCall(r, st) ==
    [totalChecks      |-> r.statsAtCall.totalChecks + Own(r).totalChecks,
     successfulChecks |-> r.statsAtCall.successfulChecks + Own(r).successfulChecks,
     failedChecks     |-> r.statsAtCall.failedChecks + Own(r).failedChecks]

\* this.stats in lines 142-152: the one object of lines 20-24, read where it
\* is incremented, whichever invocation r does so.
SharedStats(r, st) == st

\* lines 144-145 and 148-149, then line 152 and the next node; for a null or
\* undefined node, node.id throws before anything is written and
\* checkAllNodes rejects.
RecordFailure(p, r, node, finalCheck) ==
    IF node \in Nullish
    THEN /\ inv' = [inv EXCEPT ![p] = Rejected(r)]
         /\ submitted' = submitted - (Len(r.nodeList) - Len(r.verdicts))
         /\ UNCHANGED <<healthyNodes, unhealthyNodes, stats, lastOutcome, confirmations>>
    ELSE LET st == CountTotal(CountFailure(SharedStats(r, stats)))
         IN  /\ unhealthyNodes' = unhealthyNodes \cup {node.id}
             /\ stats' = st
             /\ inv' = [inv EXCEPT ![p] = NextNode(Noted(r, finalCheck), st)]
             /\ lastOutcome' = Spread(lastOutcome, [n \in {node.id} |-> "failed"])
             /\ UNCHANGED <<healthyNodes, confirmations, submitted>>

\* lines 129-142, then line 152 and the next node
RecordSuccess(p, r, node, finalCheck) ==
    LET st == CountTotal(CountSuccess(SharedStats(r, stats)))
        arr == Append(r.healthyNodes, ScoredNode(node, finalCheck, r.stabilityTest))
    IN  /\ healthyNodes' = MapSet(healthyNodes, node.id,
                                  RegistryEntry(node, finalCheck, r.stabilityTest))
        /\ stats' = st
        /\ inv' = [inv EXCEPT ![p] =
                     NextNode([Noted(r, finalCheck) EXCEPT !.healthyNodes = arr], st)]
        /\ lastOutcome' = Spread(lastOutcome, [n \in {node.id} |-> "healthy"])
        /\ confirmations' = Confirmation(confirmations, node.id, finalCheck.latency)
        /\ UNCHANGED <<unhealthyNodes, submitted>>

\* As Stable, with the confirmation probe made whatever testStability returned.
StableAlways(stabilityTest) == TRUE

\* line 124: if (stabilityTest.stable)
Stable(stabilityTest) == stabilityTest.stable

\* checkAllNodes resumes with the stability result: line 124, then either the
\* confirmation fetch of line 126 or the else branch of line 147.
Classify(p) ==
    /\ inv[p].pc = "classify"
    /\ LET r == inv[p]
       IN  IF Stable(r.stabilityTest)
           THEN /\ inv' = [inv EXCEPT ![p] = CallProbe(r, "finalProbe")]
                /\ UNCHANGED <<healthyNodes, unhealthyNodes, stats, submitted, lastOutcome,
                               confirmations>>
           ELSE RecordFailure(p, r, r.nodeList[r.k], Null)
    /\ best' = NoCall
    /\ UNCHANGED pure

\* checkAllNodes resumes with the result of the confirmation probe: lines
\* 126-152 and the next node.
FinalProbeDone(p) ==
    /\ inv[p].pc = "finalResume"
    /\ LET finalCheck == inv[p].resolved
           r == [inv[p] EXCEPT !.resolved = Null]
       IN  IF Confirmed(finalCheck)
           THEN RecordSuccess(p, r, r.nodeList[r.k], finalCheck)
           ELSE RecordFailure(p, r, r.nodeList[r.k], finalCheck)
    /\ best' = NoCall
    /\ UNCHANGED pure

\* getBestNode() is called on the exported checker, between any two steps of
\* an invocation or outside one; best holds what the call returned until the
\* next step.
GetBestNode ==
    /\ best' = [called |-> TRUE, node |-> getBestNode(healthyNodes)]
    /\ UNCHANGED <<healthyNodes, unhealthyNodes, stats, inv, submitted, lastOutcome,
                   confirmations, pure>>

Next ==
    \/ \E p \in SeqProcs, nodeList \in NodeLists : CheckAllNodes(p, nodeList)
    \/ \E p \in SeqProcs, o \in Outcomes : FetchSettled(p, o)
    \/ \E p \in SeqProcs : StabilityProbeDone(p)
    \/ \E p \in SeqProcs : DelayDone(p)
    \/ \E p \in SeqProcs : Classify(p)
    \/ \E p \in SeqProcs : FinalProbeDone(p)
    \/ GetBestNode

Spec == Init /\ [][Next]_vars

(***************************************************************************)
(* validateResponse called directly on a response and a latency.           *)
(***************************************************************************)
Statuses == {Undefined, 0, 200, 301, 399, 400, 404, 500}
Latencies == {-5, 0, 1, 2, 75, 149, 150, 151, 152, 1000, 5000}

InitValidate ==
    /\ InitChecker
    /\ pure \in {[status |-> s, latency |-> l, called |-> FALSE, out |-> FALSE] :
                    s \in Statuses, l \in Latencies}

CallValidateResponse ==
    /\ ~pure.called
    /\ pure' = [pure EXCEPT !.called = TRUE,
                            !.out = validateResponse(pure.status, pure.latency)]
    /\ UNCHANGED <<healthyNodes, unhealthyNodes, stats, inv, submitted, lastOutcome,
                   confirmations, best>>

NextValidate == CallValidateResponse

SpecValidate == InitValidate /\ [][NextValidate]_vars

(***************************************************************************)
(* calculateScore called directly on a latency and an average latency.     *)
(***************************************************************************)
Currents == {0, 1, 30, 50, 80, 99, 100, 101, 150, 200}
\* Averages are sums of three latencies over 3, as line 104 makes them.
AverageSums == {0, 90, 140, 150, 165, 190, 210, 240, 270, 360, 450}

InitScore ==
    /\ InitChecker
    /\ pure \in {[current |-> c, average |-> Rat(n, 3), called |-> FALSE, out |-> 0] :
                    c \in Currents, n \in AverageSums}

CallCalculateScore ==
    /\ ~pure.called
    /\ pure' = [pure EXCEPT !.called = TRUE,
                            !.out = calculateScore(pure.current, pure.average)]
    /\ UNCHANGED <<healthyNodes, unhealthyNodes, stats, inv, submitted, lastOutcome,
                   confirmations, best>>

NextScore == CallCalculateScore

SpecScore == InitScore /\ [][NextScore]_vars

(***************************************************************************)
(* verifyRealConnection called directly, on a fresh checker and on one     *)
(* that has classified node A healthy and node B unhealthy.                *)
(***************************************************************************)
\* What makes the try block of lines 31-57 throw: the timeout's abort, a
\* transport failure, a node whose url is no valid target, a node that is
\* null or undefined (node.url throws).
ProbeRejections ==
    {[kind |-> "error", message |-> m] :
        m \in {"The operation was aborted.", "Failed to fetch",
               "Failed to parse URL from not-a-url",
               NullNodeThrow.message, UndefinedNodeThrow.message}}
ProbeOutcomes ==
    ProbeRejections
    \cup {[kind |-> "response", status |-> s, latency |-> l] :
              s \in Statuses, l \in Latencies}

UsedChecker ==
    LET finalCheck == [healthy |-> TRUE, latency |-> 30, status |-> 0]
        stabilityTest == StableResult(<<finalCheck, finalCheck, finalCheck>>)
    IN  [healthyNodes   |-> MapSet(<<>>, NodeA.id, RegistryEntry(NodeA, finalCheck, stabilityTest)),
         unhealthyNodes |-> {NodeB.id},
         stats          |-> [totalChecks |-> 2, successfulChecks |-> 1, failedChecks |-> 1]]

FreshChecker ==
    [healthyNodes   |-> <<>>,
     unhealthyNodes |-> {},
     stats          |-> [totalChecks |-> 0, successfulChecks |-> 0, failedChecks |-> 0]]

InitProbe ==
    /\ \E c \in {FreshChecker, UsedChecker} :
           /\ healthyNodes = c.healthyNodes
           /\ unhealthyNodes = c.unhealthyNodes
           /\ stats = c.stats
           /\ \E o \in ProbeOutcomes :
                  pure = [outcome |-> o, called |-> FALSE, result |-> Null, before |-> c]
    /\ inv = [p \in Procs |-> IdleFrame]
    /\ submitted = stats.totalChecks
    /\ lastOutcome = [n \in unhealthyNodes |-> "failed"]
    /\ confirmations = <<>>
    /\ best = NoCall

\* verifyRealConnection has no statement that writes this.healthyNodes,
\* this.unhealthyNodes or this.stats.
CallVerifyRealConnection ==
    /\ ~pure.called
    /\ pure' = [pure EXCEPT !.called = TRUE,
                            !.result = verifyRealConnection(pure.outcome)]
    /\ UNCHANGED <<healthyNodes, unhealthyNodes, stats, inv, submitted, lastOutcome,
                   confirmations, best>>

NextProbe == CallVerifyRealConnection

SpecProbe == InitProbe /\ [][NextProbe]_vars

(***************************************************************************)
(* Two invocations of checkAllNodes on the one checker of line 195, not    *)
(* awaited one before the other: their synchronous segments interleave at  *)
(* every await.                                                            *)
(***************************************************************************)
\* One healthy and one unhealthy outcome of a fetch: what the counters and
\* the registry get depends on no more than that.
ConcOutcomes == {[kind |-> "response", status |-> 0, latency |-> 30],
                 [kind |-> "error", message |-> "The operation was aborted."]}

NextConc ==
    \/ \E p \in Procs, nodeList \in NodeLists : CheckAllNodes(p, nodeList)
    \/ \E p \in Procs, o \in ConcOutcomes : FetchSettled(p, o)
    \/ \E p \in Procs : StabilityProbeDone(p)
    \/ \E p \in Procs : DelayDone(p)
    \/ \E p \in Procs : Classify(p)
    \/ \E p \in Procs : FinalProbeDone(p)

SpecConc == Init /\ [][NextConc]_vars

(***************************************************************************)
(* The sequential machine under the scheduling the runtime gives it: a     *)
(* fetch settles (a response, an error, or the abort of line 33 after      *)
(* CHECK_TIMEOUT), the timer of line 99 fires, and a continuation that is   *)
(* ready is run.                                                            *)
(***************************************************************************)
\* The steps of checkAllNodes; getBestNode, which writes nothing, is left out.
NextChecks ==
    \/ \E p \in SeqProcs, nodeList \in NodeLists : CheckAllNodes(p, nodeList)
    \/ \E p \in SeqProcs, o \in Outcomes : FetchSettled(p, o)
    \/ \E p \in SeqProcs : StabilityProbeDone(p)
    \/ \E p \in SeqProcs : DelayDone(p)
    \/ \E p \in SeqProcs : Classify(p)
    \/ \E p \in SeqProcs : FinalProbeDone(p)

FairSpec ==
    /\ Init
    /\ [][NextChecks]_vars
    /\ WF_vars(\E p \in SeqProcs, o \in Outcomes : FetchSettled(p, o))
    /\ WF_vars(\E p \in SeqProcs : StabilityProbeDone(p))
    /\ WF_vars(\E p \in SeqProcs : DelayDone(p))
    /\ WF_vars(\E p \in SeqProcs : Classify(p))
    /\ WF_vars(\E p \in SeqProcs : FinalProbeDone(p))

(***************************************************************************)
(* The return of checkAllNodes, lines 158-164, on counters the checker     *)
(* has after classifying 1, 2, 3, 4, 8, 16 or 80 nodes.                    *)
(***************************************************************************)
RateTotals == {1, 2, 3, 4, 8, 16, 80}

InitRate ==
    /\ InitChecker
    /\ \E total \in RateTotals : \E succeeded \in 0..total :
           pure = [stats  |-> [totalChecks      |-> total,
                               successfulChecks |-> succeeded,
                               failedChecks     |-> total - succeeded],
                   called |-> FALSE,
                   ret    |-> Null]

CallReturnValue ==
    /\ ~pure.called
    /\ pure' = [pure EXCEPT !.called = TRUE, !.ret = ReturnValue(<<>>, pure.stats)]
    /\ UNCHANGED <<healthyNodes, unhealthyNodes, stats, inv, submitted, lastOutcome,
                   confirmations, best>>

NextRate == CallReturnValue

SpecRate == InitRate /\ [][NextRate]_vars

(***************************************************************************)
(* Properties.                                                             *)
(***************************************************************************)
Frames == {inv[p] : p \in Procs}

AllHealthy(flags) == \A j \in 1..Len(flags) : flags[j]

\* Node k of the frame's list passed: its evaluation returned stable after
\* REQUIRED_TESTS healthy attempts and the confirmation probe after it was healthy.
Passed(r, k) ==
    /\ k \in 1..Len(r.verdicts)
    /\ r.verdicts[k].stable
    /\ r.verdicts[k].confirmed
    /\ Len(r.probes[k]) = REQUIRED_TESTS + 1
    /\ AllHealthy(r.probes[k])

PassedSet(r) == {k \in 1..Len(r.nodeList) : Passed(r, k)}

\* Element e of a healthy list is the scored node of position k.
\* The names lines 131-133 write into a ScoredNode.
EngineFields == {"latency", "avgLatency", "score"}

ComesFrom(r, e, k) ==
    /\ \A f \in DOMAIN r.nodeList[k] \ EngineFields :
           f \in DOMAIN e /\ e[f] = r.nodeList[k][f]
    /\ e.latency = r.verdicts[k].latency
    /\ e.avgLatency = r.verdicts[k].avgLatency

\* C1: a node is in the healthy list, while it is built and when it is
\* returned, only if its stability evaluation in this invocation returned
\* stable = true and the confirmation probe after it returned healthy = true.
C1_HealthyOnlyIfStableAndConfirmed ==
    \A r \in Frames :
        /\ \A j \in 1..Len(r.healthyNodes) :
               \E k \in PassedSet(r) : ComesFrom(r, r.healthyNodes[j], k)
        /\ Len(r.healthyNodes) <= Cardinality(PassedSet(r))
        /\ r.pc = "done" =>
               /\ \A j \in 1..Len(r.ret.healthy) :
                      \E k \in PassedSet(r) : ComesFrom(r, r.ret.healthy[j], k)
               /\ Len(r.ret.healthy) <= Cardinality(PassedSet(r))

\* A run has returned one node and left out one that was stable and failed
\* its confirmation.
C1_Witness ==
    \E r \in Frames :
        /\ r.pc = "done"
        /\ Len(r.ret.healthy) = 1
        /\ \E k \in 1..Len(r.verdicts) : r.verdicts[k].stable /\ ~r.verdicts[k].confirmed

PassCount(r) == Cardinality(PassedSet(r))
FailCount(r) == Len(r.nodeList) - PassCount(r)

\* C2 as stated: the returned stats count the nodes of this invocation only.
C2_StatsResetPerInvocation ==
    \A r \in Frames :
        r.pc = "done" =>
            /\ r.ret.stats.totalChecks = Len(r.nodeList)
            /\ r.ret.stats.successfulChecks = PassCount(r)
            /\ r.ret.stats.failedChecks = FailCount(r)

\* C3 as stated: checkAllNodes on an empty list returns healthy = [] and the
\* rate "0.0%", whatever the state of the checker.
C3_EmptyListRateIsZero ==
    \A r \in Frames :
        (r.pc = "done" /\ r.nodeList = <<>>) =>
            /\ r.ret.healthy = <<>>
            /\ r.ret.stats.healthRate = "0.0%"

\* C4 as stated: a node whose latest classification was a failure has no
\* entry in the healthy map and is in the unhealthy set.
C4_FailedNodeNotInHealthyMap ==
    \A id \in DOMAIN lastOutcome :
        lastOutcome[id] = "failed" =>
            /\ ~MapHas(healthyNodes, id)
            /\ id \in unhealthyNodes

\* C5: the stability evaluation stops at its first unhealthy attempt.  An
\* unhealthy result is always the last of the results, no probe is in flight
\* or awaited after it, and the evaluation has then returned stable = false
\* with attempt = the 1-based index of that result = the fetches made.
C5_ShortCircuitOnFirstFailure ==
    \A r \in Frames :
        /\ \A j \in 1..Len(r.results) :
               ~r.results[j].healthy =>
                   /\ j = Len(r.results)
                   /\ r.pc = "classify"
                   /\ r.stabilityTest.stable = FALSE
                   /\ r.stabilityTest.attempt = j
                   /\ r.fetches = j
        /\ (r.pc = "classify" /\ ~r.stabilityTest.stable) =>
               /\ Len(r.results) \in 1..REQUIRED_TESTS
               /\ ~r.results[Len(r.results)].healthy
               /\ r.stabilityTest.attempt = Len(r.results)
        /\ r.pc \in {"stabProbe", "stabResume", "delay"} =>
               Len(r.results) < REQUIRED_TESTS + 1
        /\ r.pc \in {"stabProbe", "stabResume", "delay", "classify"} =>
               r.fetches = Len(r.results)
                               + (IF r.pc \in {"stabProbe", "stabResume"} THEN 1 ELSE 0)

\* Attempts healthy, healthy, unhealthy: stable = false, attempt = 3.
C5_Witness ==
    \E r \in Frames :
        /\ r.pc = "classify"
        /\ Len(r.results) = 3
        /\ r.results[1].healthy /\ r.results[2].healthy /\ ~r.results[3].healthy
        /\ r.stabilityTest.stable = FALSE
        /\ r.stabilityTest.attempt = 3
        /\ r.fetches = 3

RECURSIVE TotalLatency(_, _)
TotalLatency(results, n) ==
    IF n = 0 THEN 0 ELSE results[n].latency + TotalLatency(results, n - 1)

\* C6: the evaluation returns stable = true exactly when all REQUIRED_TESTS
\* attempts were healthy, and then attempts = REQUIRED_TESTS, successRate = 1
\* and avgLatency = the mean of the latencies of those attempts.
C6_StableIffAllAttemptsHealthy ==
    \A r \in Frames :
        r.pc = "classify" =>
            /\ r.stabilityTest.stable <=>
                   (Len(r.results) = REQUIRED_TESTS /\ \A j \in 1..Len(r.results) : r.results[j].healthy)
            /\ r.stabilityTest.stable =>
                   /\ r.stabilityTest.attempts = REQUIRED_TESTS
                   /\ r.stabilityTest.successRate = 1
                   /\ r.stabilityTest.avgLatency.den > 0
                   /\ r.stabilityTest.avgLatency.num * REQUIRED_TESTS
                          = r.stabilityTest.avgLatency.den * TotalLatency(r.results, REQUIRED_TESTS)

\* A stable evaluation whose mean latency is not a whole number.
C6_Witness ==
    \E r \in Frames :
        /\ r.pc = "classify"
        /\ r.stabilityTest.stable
        /\ r.results[1].latency = 30 /\ r.results[2].latency = 80 /\ r.results[3].latency = 30
        /\ r.stabilityTest.avgLatency = [num |-> 140, den |-> 3]

\* C7: totalChecks = successfulChecks + failedChecks, in the checker's
\* counters at every point and in the stats every invocation returns.
C7_TotalIsSucceededPlusFailed ==
    /\ stats.totalChecks = stats.successfulChecks + stats.failedChecks
    /\ \A r \in Frames :
           r.pc = "done" =>
               r.ret.stats.totalChecks
                   = r.ret.stats.successfulChecks + r.ret.stats.failedChecks

\* An invocation has returned after successes and failures.
C7_Witness ==
    \E r \in Frames :
        /\ r.pc = "done"
        /\ r.ret.stats.successfulChecks > 0
        /\ r.ret.stats.failedChecks > 1

\* C8: getBestNode returns null when no node was ever classified healthy;
\* otherwise the entry of the healthy map whose latest confirmation latency
\* is lowest, and among equals the one whose first classification as healthy
\* came first.
C8_BestIsLowestLatencyFirstInserted ==
    best.called =>
        IF confirmations = <<>>
        THEN best.node = Null /\ healthyNodes = <<>>
        ELSE /\ best.node # Null
             /\ \E j \in 1..Len(healthyNodes) : best.node = healthyNodes[j].value
             /\ \E j \in 1..Len(confirmations) :
                    /\ best.node.id = confirmations[j].id
                    /\ best.node.health.latency = confirmations[j].latency
                    /\ \A j2 \in 1..Len(confirmations) :
                           /\ confirmations[j].latency <= confirmations[j2].latency
                           /\ j2 < j => confirmations[j].latency < confirmations[j2].latency

\* getBestNode has chosen the first of two entries of equal latency, the
\* first having been registered again after the second.
C8_Witness ==
    /\ best.called
    /\ Len(confirmations) = 2
    /\ confirmations[1].latency = confirmations[2].latency
    /\ submitted = 3
    /\ stats.successfulChecks = 3
    /\ best.node.id = confirmations[1].id

\* C9: validateResponse returns true exactly when 1 <= latency <= 150 and the
\* status is absent (undefined or 0) or below 400.
C9_ValidateResponseIff ==
    pure.called =>
        (pure.out <=>
            /\ 1 <= pure.latency
            /\ pure.latency <= 150
            /\ (pure.status \in {Undefined, 0} \/ pure.status < 400))

\* validateResponse has accepted a response at the latency threshold.
C9_Witness ==
    /\ pure.called
    /\ pure.out
    /\ pure.latency = 150
    /\ pure.status = 399

\* C10: the returned healthy list holds exactly the nodes that passed in this
\* invocation, by score descending, equal scores in input order.
C10_HealthySortedByScoreStable ==
    \A r \in Frames :
        r.pc = "done" =>
            LET out == r.ret.healthy
                P == PassedSet(r)
            IN  /\ Len(out) = Cardinality(P)
                /\ \E idx \in [1..Len(out) -> P] :
                       /\ \A j1, j2 \in 1..Len(out) : j1 # j2 => idx[j1] # idx[j2]
                       /\ \A j \in 1..Len(out) : ComesFrom(r, out[j], idx[j])
                       /\ \A j1, j2 \in 1..Len(out) :
                              j1 < j2 =>
                                  \/ out[j1].score > out[j2].score
                                  \/ out[j1].score = out[j2].score /\ idx[j1] < idx[j2]

\* Two nodes passed with equal scores and different average latencies, and
\* are returned in input order.
C10_Witness ==
    \E r \in Frames :
        /\ r.pc = "done"
        /\ Len(r.ret.healthy) = 2
        /\ r.ret.healthy[1].score = r.ret.healthy[2].score
        /\ r.ret.healthy[1].avgLatency # r.ret.healthy[2].avgLatency
        /\ r.ret.healthy[1].avgLatency = r.verdicts[1].avgLatency

\* Two nodes passed and are returned in the reverse of their input order.
C10_WitnessReordered ==
    \E r \in Frames :
        /\ r.pc = "done"
        /\ Len(r.ret.healthy) = 2
        /\ r.ret.healthy[1].score > r.ret.healthy[2].score
        /\ r.ret.healthy[1].id = r.nodeList[2].id
        /\ r.ret.healthy[2].id = r.nodeList[1].id
        /\ r.nodeList[1].id # r.nodeList[2].id

\* The average a is within 20 of the latency c, strictly.
Within20(c, a) ==
    /\ c * a.den - a.num < 20 * a.den
    /\ a.num - c * a.den < 20 * a.den

\* C11: calculateScore(current, average) is max(0, 100 - current) plus 20 when
\* |current - average| < 20; it lies in 0..120, a difference of exactly 20
\* earns no bonus, a current latency of 100 or more earns nothing from the
\* latency term, and score(50, 55) = 70, score(50, 90) = 50.
C11_ScoreFormula ==
    pure.called =>
        LET c == pure.current
            a == pure.average
            latencyTerm == IF c >= 100 THEN 0 ELSE 100 - c
        IN  /\ pure.out = latencyTerm + (IF Within20(c, a) THEN 20 ELSE 0)
            /\ pure.out \in 0..120
            /\ (c * a.den - a.num = 20 * a.den \/ a.num - c * a.den = 20 * a.den)
                   => pure.out = latencyTerm
            /\ c >= 100 => pure.out \in {0, 20}
            /\ (c = 50 /\ a = Rat(55, 1)) => pure.out = 70
            /\ (c = 50 /\ a = Rat(90, 1)) => pure.out = 50

\* calculateScore has given no bonus at a difference of exactly 20.
C11_Witness ==
    /\ pure.called
    /\ pure.current = 50
    /\ pure.average = Rat(70, 1)
    /\ pure.out = 50

\* C12: a probe returns a result whatever the fetch does; when the fetch
\* rejects (transport failure, abort on timeout, malformed node) the result
\* is healthy = false, latency = null, error = the error's message; and the
\* probe leaves the stats, the healthy map and the unhealthy set as they were.
C12_ProbeNeverRaisesNorWrites ==
    pure.called =>
        /\ pure.result # Null
        /\ "healthy" \in DOMAIN pure.result
        /\ pure.result.healthy \in BOOLEAN
        /\ pure.outcome.kind = "error" =>
               pure.result = [healthy |-> FALSE, latency |-> Null,
                              error |-> pure.outcome.message]
        /\ healthyNodes = pure.before.healthyNodes
        /\ unhealthyNodes = pure.before.unhealthyNodes
        /\ stats = pure.before.stats

\* A probe of a used checker has ended in the timeout's abort.
C12_Witness ==
    /\ pure.called
    /\ pure.outcome = [kind |-> "error", message |-> "The operation was aborted."]
    /\ pure.result.healthy = FALSE
    /\ stats.totalChecks = 2
    /\ Len(healthyNodes) = 1

\* Fetches of the current node of invocation r that have not settled yet.
InFlight(r) == r.fetches - Len(r.probes[r.k])

Running(r) ==
    r.pc \in {"stabProbe", "stabResume", "delay", "classify", "finalProbe", "finalResume"}

\* The nodes before position k have their outcome in the counters and in the
\* registry or the unhealthy set.
RecordedBefore(r, k) ==
    /\ Len(r.verdicts) = k - 1
    /\ stats.totalChecks = r.statsAtCall.totalChecks + k - 1
    /\ \A j \in 1..(k - 1) :
           IF r.verdicts[j].confirmed
           THEN MapHas(healthyNodes, r.nodeList[j].id)
           ELSE r.nodeList[j].id \in unhealthyNodes

\* C13: within one invocation at most one probe is in flight; stability
\* attempt N+1 is in flight only when N attempts have completed and no delay
\* is pending; the confirmation probe is in flight only after all
\* REQUIRED_TESTS stability attempts; while node k is being probed every
\* node before it is counted and recorded.
C13_ProbingStrictlySequential ==
    \A p \in SeqProcs :
        LET r == inv[p]
        IN  Running(r) =>
                /\ InFlight(r) \in {0, 1}
                /\ InFlight(r) = 1 <=> r.pc \in {"stabProbe", "finalProbe"}
                /\ r.pc \in {"stabProbe", "stabResume"} =>
                       r.i = Len(r.results) /\ r.fetches = Len(r.results) + 1
                /\ r.pc = "delay" =>
                       r.i + 1 = Len(r.results) /\ r.fetches = Len(r.results)
                /\ r.pc \in {"finalProbe", "finalResume"} =>
                       /\ Len(r.results) = REQUIRED_TESTS
                       /\ r.fetches = REQUIRED_TESTS + 1
                       /\ \A j \in 1..REQUIRED_TESTS : r.probes[r.k][j]
                /\ RecordedBefore(r, r.k)

\* The confirmation probe of the second node is in flight, the first node
\* having been recorded.
C13_Witness ==
    \E p \in SeqProcs :
        /\ inv[p].pc = "finalProbe"
        /\ inv[p].k = 2
        /\ InFlight(inv[p]) = 1
        /\ Len(inv[p].verdicts) = 1

\* Invocation r has returned with every node of its list classified once, in
\* the order of the list, and counted once.
ClassifiedAll(r) ==
    /\ r.k = Len(r.nodeList) + 1
    /\ Len(r.verdicts) = Len(r.nodeList)
    /\ Len(r.probes) = Len(r.nodeList)
    /\ \A j \in 1..Len(r.nodeList) :
           /\ r.probes[j] # <<>>
           /\ r.verdicts[j].confirmed <=>
                  /\ Len(r.probes[j]) = REQUIRED_TESTS + 1
                  /\ \A a \in 1..(REQUIRED_TESTS + 1) : r.probes[j][a]
    /\ \A j \in 1..Len(r.nodeList) :
           (\A m \in (j + 1)..Len(r.nodeList) : r.nodeList[m].id # r.nodeList[j].id) =>
               lastOutcome[r.nodeList[j].id] =
                   IF r.verdicts[j].confirmed THEN "healthy" ELSE "failed"
    /\ stats.totalChecks = r.statsAtCall.totalChecks + Len(r.nodeList)
    /\ r.ret.stats.totalChecks = stats.totalChecks

\* C14: when every probe eventually completes, an invocation of checkAllNodes
\* eventually returns, and when it has returned every node of its list has
\* been classified exactly once in input order, failing nodes included, and
\* totalChecks has grown by the length of the list.
C14_ReturnsHavingClassifiedAll ==
    /\ [](\A p \in SeqProcs : inv[p].pc = "done" => ClassifiedAll(inv[p]))
    /\ \A p \in SeqProcs : (Running(inv[p]) ~> inv[p].pc = "done")

\* text is succeeded / total x 100 rounded to tenths and written with one
\* decimal and a percent sign: t tenths, the nearest to the value, and where
\* the value is exactly halfway between two tenths the upper one (halves up)
\* or the even one (halves to even).
RoundedRate(text, succeeded, total) ==
    \E t \in 0..1000 :
        /\ 2 * total * t - total <= 2000 * succeeded
        /\ \/ 2000 * succeeded < 2 * total * t + total
           \/ 2000 * succeeded = 2 * total * t + total /\ t % 2 = 0
        /\ text = IntToStr(t \div 10) \o "." \o IntToStr(t % 10) \o "%"

\* C15: whenever the returned totalChecks is positive, the returned
\* healthRate is successfulChecks / totalChecks x 100 of the same returned
\* stats rounded to one decimal place.
C15_HealthRateRoundedToOneDecimal ==
    (pure.called /\ pure.ret.stats.totalChecks > 0) =>
        RoundedRate(pure.ret.stats.healthRate,
                    pure.ret.stats.successfulChecks,
                    pure.ret.stats.totalChecks)

\* C16: every field of an input node, whatever its name, has its
\* original value in that node's ScoredNode in the returned list.
C16_EveryInputFieldPreserved ==
    \A p \in SeqProcs :
        inv[p].pc = "done" =>
            \A j \in 1..Len(inv[p].ret.healthy) :
                \E k \in PassedSet(inv[p]) :
                    /\ inv[p].nodeList[k].id = inv[p].ret.healthy[j].id
                    /\ \A f \in DOMAIN inv[p].nodeList[k] :
                           /\ f \in DOMAIN inv[p].ret.healthy[j]
                           /\ inv[p].ret.healthy[j][f] = inv[p].nodeList[k][f]

\* C17: no step of an invocation of checkAllNodes lowers totalChecks,
\* successfulChecks or failedChecks.
C17_CountersNeverDecrease ==
    [][/\ stats'.totalChecks >= stats.totalChecks
       /\ stats'.successfulChecks >= stats.successfulChecks
       /\ stats'.failedChecks >= stats.failedChecks]_vars

\* An invocation that started with a failure already counted is about to
\* probe its second node, having counted a success for its first.
C17_Witness ==
    \E p \in SeqProcs :
        /\ inv[p].pc = "stabProbe"
        /\ inv[p].k = 2
        /\ inv[p].statsAtCall.failedChecks = 1
        /\ stats.successfulChecks = inv[p].statsAtCall.successfulChecks + 1
        /\ stats.failedChecks = 1

\* Nodes of invocation p's list that it has not counted yet and will reach.
Pending(p) ==
    IF inv[p].pc = "rejected" THEN 0
    ELSE Len(inv[p].nodeList) - Len(inv[p].verdicts)

RECURSIVE SumPending(_)
SumPending(S) ==
    IF S = {} THEN 0
    ELSE LET p == CHOOSE q \in S : TRUE IN Pending(p) + SumPending(S \ {p})

RECURSIVE SumLists(_)
SumLists(S) ==
    IF S = {} THEN 0
    ELSE LET p == CHOOSE q \in S : TRUE IN Len(inv[p].nodeList) + SumLists(S \ {p})

\* C18: with two invocations interleaving at every await, no update is lost:
\* at every suspension point totalChecks = successfulChecks + failedChecks
\* and totalChecks counts every node classified so far by either invocation,
\* every classified node is in the map or the set its verdict names, and
\* once both have returned totalChecks has grown by the sum of the list
\* lengths.
C18_NoLostUpdateWhenOverlapping ==
    /\ stats.totalChecks = stats.successfulChecks + stats.failedChecks
    /\ stats.totalChecks = submitted - SumPending(Procs)
    /\ \A p \in Procs : \A j \in 1..Len(inv[p].verdicts) :
           IF inv[p].verdicts[j].confirmed
           THEN MapHas(healthyNodes, inv[p].nodeList[j].id)
           ELSE inv[p].nodeList[j].id \in unhealthyNodes
    /\ (\A p \in Procs : inv[p].pc = "done" /\ inv[p].statsAtCall.totalChecks = 0) =>
           stats.totalChecks = SumLists(Procs)

\* Two invocations with non-empty lists, each called before the other had
\* counted anything, have both returned.
C18_Witness ==
    /\ \A p \in Procs :
           /\ inv[p].pc = "done"
           /\ inv[p].nodeList # <<>>
           /\ inv[p].statsAtCall.totalChecks = 0
    /\ stats.successfulChecks >= 1
    /\ stats.failedChecks >= 1

\* The first unhealthy flag of a node's probes is its last.
EndsAtFirstUnhealthy(flags) ==
    /\ flags # <<>>
    /\ ~flags[Len(flags)]
    /\ \A a \in 1..(Len(flags) - 1) : flags[a]

\* C19: in one invocation a node gets at most REQUIRED_TESTS + 1 probes:
\* exactly REQUIRED_TESTS + 1 when it passed stability, whatever the
\* confirmation returned, and exactly k <= REQUIRED_TESTS when its k-th
\* stability attempt was the first unhealthy one, with no confirmation probe.
C19_ProbesPerNode ==
    \A p \in SeqProcs :
        LET r == inv[p]
        IN  /\ r.fetches <= REQUIRED_TESTS + 1
            /\ r.pc \in {"stabProbe", "stabResume"} => r.fetches <= REQUIRED_TESTS
            /\ \A j \in 1..Len(r.probes) : Len(r.probes[j]) <= REQUIRED_TESTS + 1
            /\ \A j \in 1..Len(r.verdicts) :
                   IF r.verdicts[j].stable
                   THEN /\ Len(r.probes[j]) = REQUIRED_TESTS + 1
                        /\ \A a \in 1..REQUIRED_TESTS : r.probes[j][a]
                   ELSE /\ Len(r.probes[j]) <= REQUIRED_TESTS
                        /\ EndsAtFirstUnhealthy(r.probes[j])

\* An invocation has returned whose first node failed at its second attempt
\* and whose second node passed stability and failed the confirmation.
C19_Witness ==
    \E p \in SeqProcs :
        /\ inv[p].pc = "done"
        /\ Len(inv[p].verdicts) = 2
        /\ inv[p].probes[1] = <<TRUE, FALSE>>
        /\ inv[p].verdicts[2].stable
        /\ inv[p].probes[2] = <<TRUE, TRUE, TRUE, FALSE>>

\* C20: after any sequence of invocations, a node whose most recent
\* classification was healthy is in the healthy map and not in the unhealthy
\* set, and no id is both a key of the healthy map and a member of the
\* unhealthy set.
C20_HealthyNodeLeavesUnhealthySet ==
    (\A p \in SeqProcs : inv[p].pc \in {"idle", "done"}) =>
        /\ \A id \in DOMAIN lastOutcome :
               lastOutcome[id] = "healthy" =>
                   /\ MapHas(healthyNodes, id)
                   /\ id \notin unhealthyNodes
        /\ \A id \in unhealthyNodes : ~MapHas(healthyNodes, id)

====
